---- MODULE Spec2Model ----
(***************************************************************************)
(* Balancer v3 pool tags for Arbitrum: the run of TagService.returnTags    *)
(* (src/src/main.mts), i.e. argument validation, the cursor-paginated      *)
(* fetch loop, early de-duplication by pool.id, the validity filter and    *)
(* the pool-to-tag transformation.                                         *)
(*                                                                         *)
(* Text is modelled as a sequence of one-character strings, so that the    *)
(* regular expressions, trim() and Number() of the source are computed.    *)
(***************************************************************************)
EXTENDS Integers, Sequences, FiniteSets, TLC

(***************************************************************************)
(* Bounds of the model.                                                    *)
(***************************************************************************)
\* Stand-in for the page size of the query ("first: 1000", isMore test).
PageSize == 2
\* The ghost counter of fetchData calls saturates here.
MaxCalls == 2

(***************************************************************************)
(* Program constants.                                                      *)
(***************************************************************************)
SupportedChainId == 42161
NameTagMaxLength == 50

\* An optional value (absent, undefined or null in the source): None or
\* Some(value).
None == <<>>
Some(x) == <<x>>
IsSome(o) == Len(o) > 0
Get(o) == o[1]

(***************************************************************************)
(* Characters and text helpers.                                            *)
(***************************************************************************)
Whitespace == {" ", "\t", "\n"}
Digits == <<"0", "1", "2", "3", "4", "5", "6", "7", "8", "9">>
DigitChars == {Digits[i] : i \in 1..10}
LowerChars ==
  {"a", "b", "c", "d", "e", "f", "g", "h", "i", "j", "k", "l", "m",
   "n", "o", "p", "q", "r", "s", "t", "u", "v", "w", "x", "y", "z"}
UpperChars ==
  {"A", "B", "C", "D", "E", "F", "G", "H", "I", "J", "K", "L", "M",
   "N", "O", "P", "Q", "R", "S", "T", "U", "V", "W", "X", "Y", "Z"}

DigitValue(c) == (CHOOSE i \in 1..10 : Digits[i] = c) - 1

RECURSIVE TrimStart(_)
TrimStart(s) ==
  IF s # <<>> /\ Head(s) \in Whitespace THEN TrimStart(Tail(s)) ELSE s

RECURSIVE TrimEnd(_)
TrimEnd(s) ==
  IF s # <<>> /\ s[Len(s)] \in Whitespace
  THEN TrimEnd(SubSeq(s, 1, Len(s) - 1))
  ELSE s

\* String.prototype.trim
Trim(s) == TrimEnd(TrimStart(s))

IsDigits(s) == \A i \in 1..Len(s) : s[i] \in DigitChars

RECURSIVE DigitsToNat(_)
DigitsToNat(s) ==
  IF s = <<>> THEN 0
  ELSE 10 * DigitsToNat(SubSeq(s, 1, Len(s) - 1)) + DigitValue(s[Len(s)])

RECURSIVE NatToString(_)
NatToString(n) ==
  IF n < 10 THEN <<Digits[n + 1]>>
  ELSE NatToString(n \div 10) \o <<Digits[(n % 10) + 1]>>

(***************************************************************************)
(* Number(text) for the decimal literals of the model: optional sign,      *)
(* digits, optional "." and digits, surrounded by white space; the empty   *)
(* (or blank) text is 0; anything else is NaN.  A value is kept exactly,   *)
(* as sign, whole part and the fractional digits without trailing zeros.   *)
(***************************************************************************)
NaN == [nan |-> TRUE, neg |-> FALSE, whole |-> 0, frac |-> <<>>]

RECURSIVE StripTrailingZeros(_)
StripTrailingZeros(s) ==
  IF s # <<>> /\ s[Len(s)] = "0"
  THEN StripTrailingZeros(SubSeq(s, 1, Len(s) - 1))
  ELSE s

DotPositions(s) == {i \in 1..Len(s) : s[i] = "."}

UnsignedNumber(s) ==
  IF s = <<>> THEN NaN
  ELSE IF IsDigits(s)
  THEN [nan |-> FALSE, neg |-> FALSE, whole |-> DigitsToNat(s), frac |-> <<>>]
  ELSE IF Cardinality(DotPositions(s)) = 1
  THEN LET d == CHOOSE i \in DotPositions(s) : TRUE
           w == SubSeq(s, 1, d - 1)
           f == SubSeq(s, d + 1, Len(s))
       IN IF IsDigits(w) /\ IsDigits(f) /\ (w # <<>> \/ f # <<>>)
          THEN [nan |-> FALSE, neg |-> FALSE, whole |-> DigitsToNat(w),
                frac |-> StripTrailingZeros(f)]
          ELSE NaN
  ELSE NaN

JsNumber(s) ==
  LET t == Trim(s)
  IN IF t = <<>>
     THEN [nan |-> FALSE, neg |-> FALSE, whole |-> 0, frac |-> <<>>]
     ELSE IF Head(t) = "-"
     THEN LET u == UnsignedNumber(Tail(t))
          IN IF u.nan THEN NaN ELSE [u EXCEPT !.neg = TRUE]
     ELSE IF Head(t) = "+" THEN UnsignedNumber(Tail(t))
     ELSE UnsignedNumber(t)

\* Number.isInteger
IsInteger(n) == ~n.nan /\ n.frac = <<>>

\* n === k for a non-negative integer literal k
NumberEquals(n, k) ==
  IsInteger(n) /\ n.whole = k /\ (n.neg => k = 0)

(***************************************************************************)
(* Text helpers of the source.                                             *)
(***************************************************************************)
\* /([a-z0-9])([A-Z])/g replaced by "$1 $2"
RECURSIVE camelCaseToSpaced(_)
camelCaseToSpaced(input) ==
  IF Len(input) < 2 THEN input
  ELSE IF input[1] \in (LowerChars \cup DigitChars) /\ input[2] \in UpperChars
  THEN <<input[1], " ", input[2]>> \o camelCaseToSpaced(SubSeq(input, 3, Len(input)))
  ELSE <<input[1]>> \o camelCaseToSpaced(Tail(input))

Ellipsis == <<".", ".", ".">>

\* Variant: the ellipsis is appended to the first maxLength characters.
truncateStringWhole(text, maxLength) ==
  IF Len(text) > maxLength
  THEN SubSeq(text, 1, maxLength) \o Ellipsis
  ELSE text

truncateString(text, maxLength) ==
  IF Len(text) > maxLength
  THEN SubSeq(text, 1, maxLength - 3) \o Ellipsis
  ELSE text

\* Variant: /<[^>]*>/, which also takes "<>" for markup.
containsHtmlOrMarkdownNoInterior(text) ==
  \E i \in 1..Len(text) : \E j \in (i + 1)..Len(text) :
    /\ text[i] = "<"
    /\ text[j] = ">"
    /\ \A k \in (i + 1)..(j - 1) : text[k] # ">"

\* /<[^>]+>/.test(text): a "<", then at least one character other than
\* ">", then a ">".
containsHtmlOrMarkdown(text) ==
  \E i \in 1..Len(text) : \E j \in (i + 2)..Len(text) :
    /\ text[i] = "<"
    /\ text[j] = ">"
    /\ \A k \in (i + 1)..(j - 1) : text[k] # ">"

(***************************************************************************)
(* abbreviateNumberString.  Values are exact decimals here, so toFixed and *)
(* toPrecision round the decimal value half up.                            *)
(***************************************************************************)
RECURSIVE Pow10(_)
Pow10(k) == IF k = 0 THEN 1 ELSE 10 * Pow10(k - 1)

RECURSIVE Zeros(_)
Zeros(k) == IF k = 0 THEN <<>> ELSE <<"0">> \o Zeros(k - 1)

\* n written with at least `width` digits
Pad(n, width) ==
  LET d == NatToString(n)
  IN IF Len(d) < width THEN Zeros(width - Len(d)) \o d ELSE d

Signed(neg, text) == IF neg THEN <<"-">> \o text ELSE text

\* Variant: the quotient is cut off instead of rounded.
MathRoundTextTruncating(neg, N, D) ==
  IF neg /\ N >= D THEN <<"-">> \o NatToString(N \div D)
  ELSE NatToString(N \div D)

\* `${Math.round(x)}` for x = (neg ? -N : N) / D: halves round towards
\* +Infinity, and -0 prints as "0".
MathRoundText(neg, N, D) ==
  IF ~neg THEN NatToString((2 * N + D) \div (2 * D))
  ELSE IF 2 * N <= D THEN <<"0">>
  ELSE <<"-">> \o NatToString((2 * N - D + 2 * D - 1) \div (2 * D))

LeadingZeros(f) ==
  IF \A i \in 1..Len(f) : f[i] = "0" THEN Len(f)
  ELSE (CHOOSE i \in 1..Len(f) : f[i] # "0" /\ \A j \in 1..(i - 1) : f[j] = "0") - 1

\* The digits of |n| < 1 rounded to 4 significant digits, as the integer
\* R of R / 10^Min(k, places), for the k fractional digits F
SmallRounded(F, k, places) ==
  IF k <= places THEN F
  ELSE (F + 5 * Pow10(k - places - 1)) \div Pow10(k - places)

\* Number.prototype.toString of R / 10^p, 0 < R, for the digits of R:
\* "1", the exponent form below 1e-6, else the plain decimal
SmallDigitsText(neg, digitsR, p) ==
  IF p < Len(digitsR) THEN Signed(neg, <<"1">>)
  ELSE IF p - Len(digitsR) >= 6
  THEN Signed(neg,
         <<Head(digitsR)>>
         \o (IF Len(StripTrailingZeros(digitsR)) > 1
             THEN <<".">> \o Tail(StripTrailingZeros(digitsR))
             ELSE <<>>)
         \o <<"e", "-">> \o NatToString(p - Len(digitsR) + 1))
  ELSE Signed(neg, <<"0", ".">> \o Zeros(p - Len(digitsR))
                   \o StripTrailingZeros(digitsR))

Min(a, b) == IF a < b THEN a ELSE b

\* Number(n.toPrecision(4)).toString() for |n| < 1
SmallNumberText(n) ==
  IF n.frac = <<>> THEN <<"0">>
  ELSE SmallDigitsText(
         n.neg,
         NatToString(SmallRounded(DigitsToNat(n.frac), Len(n.frac),
                                  LeadingZeros(n.frac) + 4)),
         Min(Len(n.frac), LeadingZeros(n.frac) + 4))

\* The fraction F of k digits in units of 1/10000, rounded
FixedRounded(F, k) ==
  IF k <= 4 THEN F * Pow10(4 - k)
  ELSE (F + 5 * Pow10(k - 5)) \div Pow10(k - 4)

\* total / 10000 written with 4 fractional digits, then without the
\* trailing zeros of the fraction and without a bare "."
FixedText(total) ==
  IF total % 10000 = 0 THEN NatToString(total \div 10000)
  ELSE NatToString(total \div 10000) \o <<".">>
       \o StripTrailingZeros(Pad(total % 10000, 4))

\* (|n % 1| > 0 ? n.toFixed(4) : n.toString()) and the two replace() calls
MiddleNumberText(n) ==
  Signed(n.neg,
    FixedText(n.whole * 10000 + FixedRounded(DigitsToNat(n.frac), Len(n.frac))))

\* |n| in units of 1/10^Len(n.frac)
Scaled(n) == n.whole * Pow10(Len(n.frac)) + DigitsToNat(n.frac)

AbbreviateNumber(input, n) ==
  IF n.nan THEN input
  ELSE IF n.whole >= 1000
  THEN MathRoundText(n.neg, Scaled(n),
         (IF n.whole >= 1000000 THEN 1000000 ELSE 1000) * Pow10(Len(n.frac)))
       \o (IF n.whole >= 1000000 THEN <<"M">> ELSE <<"k">>)
  ELSE IF n.whole < 1 THEN SmallNumberText(n)
  ELSE MiddleNumberText(n)

abbreviateNumberString(input) == AbbreviateNumber(input, JsNumber(input))

(***************************************************************************)
(* Pools and tags.  A Pool is a record with every field of the interface;  *)
(* factory, factory.version, the parameter groups and their members are    *)
(* optional values.                                                        *)
(***************************************************************************)
Pool(id, address, factory) ==
  [id |-> id, address |-> address, factory |-> factory,
   stableParams |-> None, weightedParams |-> None, gyro2Params |-> None,
   gyroEParams |-> None, lbpParams |-> None,
   quantAMMWeightedParams |-> None, reClammParams |-> None]

\* JavaScript truthiness of an optional text
Truthy(x) == IsSome(x) /\ Len(Get(x)) > 0

\* p?.field
Opt(p, field) == IF IsSome(p) THEN Get(p)[field] ELSE None

TypeStable == <<"S", "t", "a", "b", "l", "e">>
TypeWeighted == <<"W", "e", "i", "g", "h", "t", "e", "d">>
TypeGyro2 == <<"G", "y", "r", "o", "2">>
TypeGyroE == <<"G", "y", "r", "o", "E">>
TypeQuantAMMWeighted == <<"Q", "u", "a", "n", "t", "A", "M", "M", "W", "e", "i", "g", "h", "t", "e", "d">>
TypeLBP == <<"L", "B", "P">>
TypeReClamm == <<"R", "e", "C", "l", "a", "m", "m">>

CommaSpace == <<",", " ">>

\* label=value, label=value for the abbreviated values
RECURSIVE JoinParams(_, _)
JoinParams(labels, values) ==
  IF labels = <<>> THEN <<>>
  ELSE Head(labels) \o abbreviateNumberString(Get(Head(values)))
       \o (IF Len(labels) > 1 THEN CommaSpace ELSE <<>>)
       \o JoinParams(Tail(labels), Tail(values))

\* The labels of the snippet of a pool type whose values are abbreviated
ParamLabels(type) ==
  IF type = TypeStable THEN <<<<"a", "m", "p", "=">>>>
  ELSE IF type = TypeGyro2 THEN <<<<"s", "A", "=">>, <<"s", "B", "=">>>>
  ELSE IF type = TypeGyroE THEN <<<<"a", "=">>, <<"b", "=">>>>
  ELSE IF type = TypeQuantAMMWeighted
  THEN <<<<"e", "M", "a", "x", "=">>, <<"m", "T", "S", "R", "=">>>>
  ELSE IF type = TypeReClamm THEN <<<<"t", "s", "=">>>>
  ELSE <<>>

\* and the optional values read for them
ParamValues(pool, type) ==
  IF type = TypeStable THEN <<Opt(pool.stableParams, "amp")>>
  ELSE IF type = TypeGyro2
  THEN <<Opt(pool.gyro2Params, "sqrtAlpha"), Opt(pool.gyro2Params, "sqrtBeta")>>
  ELSE IF type = TypeGyroE
  THEN <<Opt(pool.gyroEParams, "alpha"), Opt(pool.gyroEParams, "beta")>>
  ELSE IF type = TypeQuantAMMWeighted
  THEN <<Opt(pool.quantAMMWeightedParams, "epsilonMax"),
         Opt(pool.quantAMMWeightedParams, "maxTradeSizeRatio")>>
  ELSE IF type = TypeReClamm THEN <<Opt(pool.reClammParams, "lastTimestamp")>>
  ELSE <<>>

\* The switch of buildParamsSnippet: "weights=<n>" when weights has a
\* length; for the types of ParamLabels the labelled values when every one
\* is truthy; "" for LBP, for any other type and for a missing value.
ParamsSnippet(type, weights, values) ==
  IF type = TypeWeighted
  THEN IF IsSome(weights)
       THEN <<"w", "e", "i", "g", "h", "t", "s", "=">> \o NatToString(Len(Get(weights)))
       ELSE <<>>
  ELSE IF \A i \in 1..Len(values) : Truthy(values[i])
  THEN JoinParams(ParamLabels(type), values)
  ELSE <<>>

buildParamsSnippet(pool) ==
  ParamsSnippet(Get(pool.factory).type, Opt(pool.weightedParams, "weights"),
                ParamValues(pool, Get(pool.factory).type))

\* pool.factory?.type ?? ""
TypeText(pool) ==
  IF IsSome(pool.factory) THEN Get(pool.factory).type ELSE <<>>

poolTypeInvalid(pool) ==
  containsHtmlOrMarkdown(TypeText(pool)) \/ TypeText(pool) = <<>>

versionText(version) ==
  IF IsSome(version) THEN <<" ", "v">> \o NatToString(Get(version)) ELSE <<>>

\* Variant: the snippet is appended whether or not it is empty.
paramsNoteAlways(paramsSnippet) ==
  <<" ", "P", "a", "r", "a", "m", "s", ":", " ">> \o paramsSnippet \o <<".">>

paramsNote(paramsSnippet) ==
  IF paramsSnippet # <<>> /\ Len(Trim(paramsSnippet)) > 0
  THEN <<" ", "P", "a", "r", "a", "m", "s", ":", " ">> \o paramsSnippet \o <<".">>
  ELSE <<>>

\* The tag for the display type text and the snippet.  The
\* "Contract Address" `eip155:${chainId}:${pool.address}` is kept as its
\* three parts.
TagOf(chainId, pool, typeText, paramsSnippet) ==
  [contractAddress |-> <<"eip155", chainId, pool.address>>,
   publicNameTag |->
     truncateString(typeText \o <<" ", "P", "o", "o", "l">>
                    \o versionText(Get(pool.factory).version),
                    NameTagMaxLength),
   projectName |-> "Balancer v3",
   website |-> "https://balancer.fi",
   publicNote |-> <<"A", " ", "B", "a", "l", "a", "n", "c", "e", "r", " ", "v", "3", " ", "'">> \o typeText
                  \o <<"'", " ", "p", "o", "o", "l", ".">> \o paramsNote(paramsSnippet)]

\* The map() callback of transformPoolsToTags
Tag(chainId, pool) ==
  TagOf(chainId, pool, camelCaseToSpaced(Get(pool.factory).type),
        buildParamsSnippet(pool))

transformPoolsToTags(chainId, pools) ==
  LET validPools == SelectSeq(pools, LAMBDA pool : ~poolTypeInvalid(pool))
  IN [i \in 1..Len(validPools) |-> Tag(chainId, validPools[i])]

(***************************************************************************)
(* Identifiers.  pool.id is a Bytes string; the model needs the empty      *)
(* string, the start cursor and two more, in lexicographic order.          *)
(***************************************************************************)
EmptyId == ""
ZeroId == "0x0000000000000000000000000000000000000000"
IdOrder ==
  <<EmptyId, ZeroId,
    "0x1111111111111111111111111111111111111111",
    "0x2222222222222222222222222222222222222222">>
Ids == {IdOrder[i] : i \in 1..Len(IdOrder)}
IdRank(id) == CHOOSE i \in 1..Len(IdOrder) : IdOrder[i] = id
\* a < b as strings
IdLess(a, b) == IdRank(a) < IdRank(b)

(***************************************************************************)
(* The inputs of a run: the arguments of returnTags and the subgraph.      *)
(***************************************************************************)
ChainIds ==
  { <<"4", "2", "1", "6", "1">>,
    <<"4", "2", "1", "6", "1", ".", "0">>,
    <<"4", "2", "1", "6", "1", ".", "5">>,
    <<"-", "4", "2", "1", "6", "1">>,
    <<"4", "2", "1", "6", "0">>,
    <<"1">>,
    <<"a", "r", "b", "i", "t", "r", "u", "m">>,
    <<>> }

\* apiKey: undefined or a text
ApiKeys == {None, Some(<<>>), Some(<<" ">>), Some(<<"\t", " ">>), Some(<<"k">>)}

\* factory { type version } of the pools the subgraph may hold
Factories ==
  { Some([type |-> TypeStable, version |-> Some(1)]),
    Some([type |-> <<"<", ">">>, version |-> Some(1)]),
    Some([type |-> <<"<", "b", ">">>, version |-> Some(1)]),
    None }

\* The subgraph's pools, keyed by id; in this subgraph a pool's id is its
\* contract address.  The record with the empty id is a Stable pool.
Sources ==
  {src \in [Ids -> Factories] :
     src[EmptyId] = Some([type |-> TypeStable, version |-> Some(1)])}

PoolOf(src, id) == Pool(id, id, src[id])

\* The id lists a response may carry: at most the page size asked for
\* ("first: 1000"), in any order, repetitions included.
Pages == UNION {[1..n -> Ids] : n \in 0..PageSize}

(***************************************************************************)
(* fetchData.  A response is what node-fetch and the gateway produce: the  *)
(* transport outcome, the HTTP status class, whether the body parses, and  *)
(* the errors / data.pools members of the body.                            *)
(***************************************************************************)
Response(net, ok, json, errors, data, ids) ==
  [net |-> net, ok |-> ok, json |-> json, errors |-> errors, data |-> data,
   ids |-> ids]

GoodResponses == {Response("ok", TRUE, TRUE, FALSE, "pools", p) : p \in Pages}

BadResponses ==
  { Response("abort", FALSE, FALSE, FALSE, "absent", <<>>),
    Response("error", FALSE, FALSE, FALSE, "absent", <<>>),
    Response("ok", FALSE, TRUE, FALSE, "pools", <<ZeroId>>),
    Response("ok", TRUE, FALSE, FALSE, "absent", <<>>),
    Response("ok", TRUE, TRUE, TRUE, "pools", <<ZeroId>>),
    Response("ok", TRUE, TRUE, FALSE, "absent", <<>>),
    Response("ok", TRUE, TRUE, FALSE, "nopools", <<>>) }

Responses == GoodResponses \cup BadResponses

\* An Error, by the fragments of its message.
Error(fragments) == fragments
NoError == <<>>

Thrown(error) == [ok |-> FALSE, pools |-> <<>>, error |-> error]
Returned(pools) == [ok |-> TRUE, pools |-> pools, error |-> NoError]

\* Variant: the pools are returned whenever the body holds them.
fetchDataPoolsFirst(src, resp) ==
  IF resp.net = "abort"
  THEN Thrown(Error(<<"Request timed out while querying the subgraph.">>))
  ELSE IF resp.net = "error" THEN Thrown(Error(<<"${fetch error}">>))
  ELSE IF ~resp.ok THEN Thrown(Error(<<"HTTP error: ", "${response.status}">>))
  ELSE IF ~resp.json THEN Thrown(Error(<<"${json error}">>))
  ELSE IF resp.data = "pools"
  THEN Returned([i \in 1..Len(resp.ids) |-> Pool(resp.ids[i], resp.ids[i], src[resp.ids[i]])])
  ELSE IF resp.errors
  THEN Thrown(Error(<<"GraphQL errors occurred: see logs for details.">>))
  ELSE Thrown(Error(<<"No pools data found.">>))

fetchData(src, resp) ==
  IF resp.net = "abort"
  THEN Thrown(Error(<<"Request timed out while querying the subgraph.">>))
  ELSE IF resp.net = "error" THEN Thrown(Error(<<"${fetch error}">>))
  ELSE IF ~resp.ok THEN Thrown(Error(<<"HTTP error: ", "${response.status}">>))
  ELSE IF ~resp.json THEN Thrown(Error(<<"${json error}">>))
  ELSE IF resp.errors
  THEN Thrown(Error(<<"GraphQL errors occurred: see logs for details.">>))
  ELSE IF resp.data # "pools" THEN Thrown(Error(<<"No pools data found.">>))
  ELSE Returned([i \in 1..Len(resp.ids) |-> PoolOf(src, resp.ids[i])])

\* The keys of SUBGRAPH_URLS
SubgraphUrlChains == {<<"4", "2", "1", "6", "1">>}

\* prepareUrl: the url, by the chain and the key put in its place holder
prepareUrl(chain, key) ==
  IF chain \notin SubgraphUrlChains
  THEN [ok |-> FALSE, url |-> <<>>,
        error |-> Error(<<"Unsupported Chain ID: ", "${chainId}", ".">>)]
  ELSE [ok |-> TRUE, url |-> <<chain, key>>, error |-> NoError]

(***************************************************************************)
(* One run of returnTags.                                                  *)
(***************************************************************************)
VARIABLES
  chainId,      \* argument of returnTags
  apiKey,       \* argument of returnTags
  source,       \* the subgraph's pools
  pc,           \* "Validating", "Fetching" (awaiting fetchData), "Done", "Aborted"
  lastId,       \* the cursor
  prevLastId,   \* the cursor before it
  allTags,      \* the accumulated tags
  seenPoolIds,  \* the ids let through the duplicate filter
  result,       \* what the caller's promise settles with
  fetchCalls,   \* ghost: fetchData calls issued, up to MaxCalls
  batch,        \* ghost: how the last fetchData call ended
  encountered,  \* ghost: ids of all fetched records, in order first encountered
  call,         \* a direct call of a formatting function: its name and argument
  ret,          \* what that call returned, None before it returns
  response,     \* inside one fetchData call: what the upstream holds ready
  phase,        \* "requesting", "reading", "returned", "thrown" ("idle": no call)
  timer,        \* the 30 s timer of the call: "armed", "cleared" ("idle": no call)
  outcome,      \* what the fetchData call settled with, None before
  runs,         \* overlapping returnTags calls: the locals of each
  met           \* ghost: for each of them, the ids it fetched, in order first met

runVars ==
  <<chainId, apiKey, source, pc, lastId, prevLastId, allTags, seenPoolIds,
    result, fetchCalls, batch, encountered>>
formatVars == <<call, ret>>
fetchVars == <<response, phase, timer, outcome>>
overlapVars == <<runs, met>>

vars == <<runVars, formatVars, fetchVars, overlapVars>>

\* No direct call of a formatting function is under way.
NoCall == [fn |-> "none", arg |-> <<>>]
NoFormatCall == call = NoCall /\ ret = None

\* No fetchData call is looked into.
NoFetch ==
  /\ response = <<>>
  /\ phase = "idle"
  /\ timer = "idle"
  /\ outcome = None

\* No overlapping calls.
NoOverlap == runs = <<>> /\ met = <<>>

Pending == [status |-> "pending", tags |-> <<>>, error |-> NoError]
Fulfilled(tags) == [status |-> "fulfilled", tags |-> tags, error |-> NoError]
Rejected(error) == [status |-> "rejected", tags |-> <<>>, error |-> error]

\* How a fetchData call ended: the cursor it was given, whether it returned,
\* the size and the last id of the pools it returned, the error it threw.
Batch(called, ok, cursor, size, last, error) ==
  [called |-> called, ok |-> ok, cursor |-> cursor, size |-> size, last |-> last,
   error |-> error]
NoBatch == Batch(FALSE, FALSE, EmptyId, 0, EmptyId, NoError)
BatchOf(cursor, ids) ==
  Batch(TRUE, TRUE, cursor, Len(ids),
        IF ids = <<>> THEN EmptyId ELSE ids[Len(ids)], NoError)

Init ==
  /\ chainId \in ChainIds
  /\ apiKey \in ApiKeys
  /\ source \in Sources
  /\ pc = "Validating"
  /\ lastId = ZeroId
  /\ prevLastId = EmptyId
  /\ allTags = <<>>
  /\ seenPoolIds = {}
  /\ result = Pending
  /\ fetchCalls = 0
  /\ batch = NoBatch
  /\ encountered = <<>>
  /\ NoFormatCall
  /\ NoFetch
  /\ NoOverlap

CallFetchData == fetchCalls' = IF fetchCalls < MaxCalls THEN fetchCalls + 1 ELSE fetchCalls

\* Variant: the key is not trimmed before its length is tested.
ValidationErrorTrimless(chain, key) ==
  LET chainIdNum == JsNumber(chain)
  IN IF ~IsInteger(chainIdNum)
     THEN Error(<<"Unsupported Chain ID: ", "${chainId}", ".">>)
     ELSE IF ~NumberEquals(chainIdNum, SupportedChainId)
     THEN Error(<<"Unsupported Chain ID: ", "${chainId}", ".">>)
     ELSE IF ~Truthy(key)
     THEN Error(<<"Missing API key. A The Graph gateway API key is required.">>)
     ELSE NoError

\* The argument checks of returnTags: NoError, or the error thrown.
ValidationError(chain, key) ==
  LET chainIdNum == JsNumber(chain)
  IN IF ~IsInteger(chainIdNum)
     THEN Error(<<"Unsupported Chain ID: ", "${chainId}", ".">>)
     ELSE IF ~NumberEquals(chainIdNum, SupportedChainId)
     THEN Error(<<"Unsupported Chain ID: ", "${chainId}", ".">>)
     ELSE IF ~Truthy(key) \/ Len(Trim(Get(key))) = 0
     THEN Error(<<"Missing API key. A The Graph gateway API key is required.">>)
     ELSE NoError

\* String(chainIdNum) of a validated chain id
effectiveChainId == NatToString(SupportedChainId)

\* returnTags up to its first await: the argument checks, the locals, the
\* url, and the first fetchData call.
Validate ==
  /\ pc = "Validating"
  /\ LET invalid == ValidationError(chainId, apiKey)
         url == prepareUrl(effectiveChainId, apiKey)
     IN IF invalid # NoError
        THEN /\ pc' = "Aborted"
             /\ result' = Rejected(invalid)
             /\ UNCHANGED fetchCalls
        ELSE IF ~url.ok
        THEN /\ pc' = "Aborted"
             /\ result' = Rejected(url.error)
             /\ UNCHANGED fetchCalls
        ELSE /\ pc' = "Fetching"
             /\ UNCHANGED result
             /\ CallFetchData
  /\ UNCHANGED <<chainId, apiKey, source, lastId, prevLastId, allTags,
                 seenPoolIds, batch, encountered>>
  /\ UNCHANGED <<formatVars, fetchVars, overlapVars>>

\* pools.filter(...) with its seenPoolIds.add: the pools kept and the set
\* afterwards.
Kept(pool, rest) == [kept |-> <<pool>> \o rest.kept, seen |-> rest.seen]

\* Variant: no duplicate is dropped.
FilterNewKeepAll(pools, seen) ==
  [kept |-> pools, seen |-> seen \cup {pools[i].id : i \in 1..Len(pools)}]

\* Variant: a kept id is added to the set only after the whole batch.
FilterNewStale(pools, seen) ==
  [kept |-> SelectSeq(pools, LAMBDA pool : pool.id \notin seen),
   seen |-> seen \cup {pools[i].id : i \in 1..Len(pools)}]

\* Variant: only the id of a pool that passes the validity check is added.
RECURSIVE FilterNewValidOnly(_, _)
FilterNewValidOnly(pools, seen) ==
  IF pools = <<>> THEN [kept |-> <<>>, seen |-> seen]
  ELSE IF Head(pools).id \in seen THEN FilterNewValidOnly(Tail(pools), seen)
  ELSE Kept(Head(pools),
            FilterNewValidOnly(Tail(pools),
              IF poolTypeInvalid(Head(pools)) THEN seen
              ELSE seen \cup {Head(pools).id}))

RECURSIVE FilterNew(_, _)
FilterNew(pools, seen) ==
  IF pools = <<>> THEN [kept |-> <<>>, seen |-> seen]
  ELSE IF Head(pools).id \in seen THEN FilterNew(Tail(pools), seen)
  ELSE Kept(Head(pools), FilterNew(Tail(pools), seen \cup {Head(pools).id}))

\* Variant: the next cursor is not compared with the current one.
StalledPreviousOnly(nextLastId, cursor, previous) ==
  nextLastId = EmptyId \/ nextLastId = previous

\* Variant: the next cursor is not compared with the one before.
StalledCurrentOnly(nextLastId, cursor, previous) ==
  nextLastId = EmptyId \/ nextLastId = cursor

\* The test of the cursor guard
Stalled(nextLastId, cursor, previous) ==
  nextLastId = EmptyId \/ nextLastId = cursor \/ nextLastId = previous

\* Variant: the catch block takes every error for an unknown one.
WrapUnknown(error) ==
  Error(<<"An unknown error occurred during fetch operation.">>)

\* The catch block: the error rethrown with context.  (What fetchData throws
\* is always an Error, so the branch for other values is never taken.)
Wrap(error) == Error(<<"Failed fetching data: ", "Error: ">> \o error)

StallError ==
  Error(<<"Pagination cursor did not advance; aborting to prevent an infinite loop.">>)

\* ghost: ids appended in the order first met
RECURSIVE AppendNew(_, _)
AppendNew(known, ids) ==
  IF ids = <<>> THEN known
  ELSE IF \E i \in 1..Len(known) : known[i] = Head(ids)
  THEN AppendNew(known, Tail(ids))
  ELSE AppendNew(Append(known, Head(ids)), Tail(ids))

\* Variant: any non-empty batch asks for another page.
IsMoreNonEmpty(pools) == Len(pools) > 0

IsMore(pools) == Len(pools) = PageSize

\* Variant: the catch block ends the loop and the tags so far are returned.
FetchThrewPartial(error) ==
  /\ pc' = "Done"
  /\ result' = Fulfilled(allTags)
  /\ batch' = Batch(TRUE, FALSE, lastId, 0, EmptyId, error)
  /\ UNCHANGED <<lastId, prevLastId, allTags, seenPoolIds, fetchCalls, encountered>>

\* Variant: the catch block asks for the same page again.
FetchThrewRetry(error) ==
  /\ pc' = "Fetching"
  /\ batch' = Batch(TRUE, FALSE, lastId, 0, EmptyId, error)
  /\ CallFetchData
  /\ UNCHANGED <<lastId, prevLastId, allTags, seenPoolIds, result, encountered>>

\* The catch block after a throw of fetchData
FetchThrew(error) ==
  /\ pc' = "Aborted"
  /\ result' = Rejected(Wrap(error))
  /\ batch' = Batch(TRUE, FALSE, lastId, 0, EmptyId, error)
  /\ UNCHANGED <<lastId, prevLastId, allTags, seenPoolIds, fetchCalls, encountered>>

\* The rest of the try block for the pools returned and the pools the
\* duplicate filter kept, with the set it left
FetchReturned(pools, newPools, seen) ==
  /\ seenPoolIds' = seen
  /\ allTags' = allTags \o transformPoolsToTags(effectiveChainId, newPools)
  /\ IF ~IsMore(pools)
     THEN /\ pc' = "Done"
          /\ result' = Fulfilled(allTags')
          /\ UNCHANGED <<lastId, prevLastId, fetchCalls>>
     ELSE IF Stalled(pools[Len(pools)].id, lastId, prevLastId)
     THEN /\ pc' = "Aborted"
          /\ result' = Rejected(Wrap(StallError))
          /\ UNCHANGED <<lastId, prevLastId, fetchCalls>>
     ELSE /\ pc' = "Fetching"
          /\ prevLastId' = lastId
          /\ lastId' = pools[Len(pools)].id
          /\ UNCHANGED result
          /\ CallFetchData

Settled(resp, fetched) ==
  IF ~fetched.ok THEN FetchThrew(fetched.error)
  ELSE /\ FetchReturned(fetched.pools,
                        FilterNew(fetched.pools, seenPoolIds).kept,
                        FilterNew(fetched.pools, seenPoolIds).seen)
       /\ batch' = BatchOf(lastId, resp.ids)
       /\ encountered' = AppendNew(encountered, resp.ids)

\* One pass of the while loop, from the settling of the awaited fetchData
\* to the next fetchData call, the return or the throw.
Iterate(resp) ==
  /\ pc = "Fetching"
  /\ Settled(resp, fetchData(source, resp))
  /\ UNCHANGED <<chainId, apiKey, source>>
  /\ UNCHANGED <<formatVars, fetchVars, overlapVars>>

Next ==
  \/ Validate
  \/ \E resp \in Responses : Iterate(resp)

Spec == Init /\ [][Next]_vars

\* Under the assumption that every awaited fetchData call settles; the code
\* after it then runs.
FairSpec == Spec /\ WF_vars(Next)

(***************************************************************************)
(* The formatting functions on their own: one direct call of               *)
(* transformPoolsToTags or of abbreviateNumberString, over pools whose     *)
(* parameter groups are populated and over numeric texts.                  *)
(***************************************************************************)
\* factory.version values
Versions == {None, Some(1), Some(12)}

\* What a parameter member may hold: nothing, "", a number, markup
ParamTexts ==
  {None, Some(<<>>), Some(<<"2", "5", "0", "0">>), Some(<<"<", "b", ">">>), Some(<<"0", ".", "1", "2", "3", "4", "5", "6">>)}
PairTexts == {None, Some(<<"1">>), Some(<<"<", "b", ">">>)}

\* n times the letter x
RECURSIVE Filler(_)
Filler(n) == IF n = 0 THEN <<>> ELSE <<"x">> \o Filler(n - 1)

\* A pool of the given type and version
Typed(type, version) ==
  Pool(ZeroId, ZeroId, Some([type |-> type, version |-> version]))

StablePools ==
  {[Typed(TypeStable, v) EXCEPT !.stableParams = g] :
     v \in Versions, g \in {None} \cup {Some([amp |-> t]) : t \in ParamTexts}}

WeightedPools ==
  {[Typed(TypeWeighted, Some(1)) EXCEPT !.weightedParams = g] :
     g \in {None, Some([weights |-> None]), Some([weights |-> Some(<<>>)]),
            Some([weights |-> Some(<<<<"0", ".", "5">>, <<"0", ".", "5">>>>)])}}

Gyro2Pools ==
  {[Typed(TypeGyro2, Some(1)) EXCEPT !.gyro2Params = g] :
     g \in {None} \cup {Some([sqrtAlpha |-> a, sqrtBeta |-> b]) : a, b \in PairTexts}}

GyroEPools ==
  {[Typed(TypeGyroE, Some(1)) EXCEPT !.gyroEParams = g] :
     g \in {None} \cup {Some([alpha |-> a, beta |-> b]) : a, b \in PairTexts}}

QuantAMMWeightedPools ==
  {[Typed(TypeQuantAMMWeighted, Some(1)) EXCEPT !.quantAMMWeightedParams = g] :
     g \in {None} \cup {Some([epsilonMax |-> a, maxTradeSizeRatio |-> b]) :
                          a, b \in PairTexts}}

ReClammPools ==
  {[Typed(TypeReClamm, Some(1)) EXCEPT !.reClammParams = g] :
     g \in {None} \cup {Some([lastTimestamp |-> t]) : t \in ParamTexts}}

\* LBP pools, with and without their own and with foreign parameter groups
LBPPools ==
  {[Typed(TypeLBP, Some(1)) EXCEPT !.lbpParams = g, !.stableParams = h] :
     g \in {None, Some([owner |-> Some(<<"0", "x", "a">>), projectToken |-> Some(<<"0", "x", "b">>),
                        reserveToken |-> Some(<<"0", "x", "c">>)])},
     h \in {None, Some([amp |-> Some(<<"2", "5", "0", "0">>)])}}

\* Types the switch of buildParamsSnippet does not know, the long ones
\* among them (base names of 50, 51 and 60 characters with " Pool v1"), and
\* the invalid ones
OtherTypes ==
  {<<"F", "o", "o">>, <<"s", "t", "a", "b", "l", "e">>, <<"<">>, <<"<", ">">>, <<"<", "b", ">">>, <<>>,
   <<"L", "o", "n", "g">> \o Filler(38), <<"L", "o", "n", "g">> \o Filler(39), <<"L", "o", "n", "g">> \o Filler(48),
   <<"a", "B">> \o Filler(46)}

OtherPools ==
  {[Typed(type, v) EXCEPT !.stableParams = Some([amp |-> Some(<<"2", "5", "0", "0">>)])] :
     type \in OtherTypes, v \in Versions}
  \cup {Pool(ZeroId, ZeroId, None)}

FormatPools ==
  StablePools \cup WeightedPools \cup Gyro2Pools \cup GyroEPools
  \cup QuantAMMWeightedPools \cup ReClammPools \cup LBPPools \cup OtherPools

\* The pools lists transformPoolsToTags is called with
PoolLists ==
  {<<pool>> : pool \in FormatPools}
  \cup {<<Typed(<<"<", "b", ">">>, Some(1)), pool>> : pool \in StablePools}

\* The texts abbreviateNumberString is called with
NumberTexts ==
  { <<"1", "2", "3", "4", "5", "6", "7">>,
    <<"2", "5", "0", "0">>,
    <<"1", "0", "0">>,
    <<"0", ".", "1", "2", "3", "4", "5", "6">>,
    <<"4", "2", ".", "5", "0", "0", "0">>,
    <<"1">>,
    <<"9", "9", "9">>,
    <<"1", "0", "0", "0">>,
    <<"1", "4", "9", "9">>,
    <<"1", "5", "0", "0">>,
    <<"9", "9", "9", "4", "9", "9">>,
    <<"9", "9", "9", "5", "0", "0">>,
    <<"9", "9", "9", "9", "9", "9">>,
    <<"1", "0", "0", "0", "0", "0", "0">>,
    <<"1", "4", "9", "9", "9", "9", "9">>,
    <<"1", "5", "0", "0", "0", "0", "0">>,
    <<"2", "5", "0", "0", "0", "0", "0">>,
    <<"-", "1">>,
    <<"-", "9", "9", "9">>,
    <<"-", "1", "0", "0", "0">>,
    <<"-", "1", "5", "0", "0">>,
    <<"-", "2", "5", "0", "0">>,
    <<"-", "9", "9", "9", "5", "0", "0">>,
    <<"-", "1", "0", "0", "0", "0", "0", "0">>,
    <<"-", "1", "5", "0", "0", "0", "0", "0">>,
    <<"-", "2", "5", "0", "0", "0", "0", "0">>,
    <<"1", "0", "0", ".", "0">>,
    <<"0">>,
    <<"a", "b", "c">>,
    <<"<", "b", ">">>,
    <<"1", ".", "2", ".", "3">>,
    <<"-">>,
    <<"I", "n", "f", "i", "n", "i", "t", "y">>,
    <<" ", "2", "5", "0", "0", " ">> }

\* returnTags has not been called.
NoRun ==
  /\ chainId = <<"4", "2", "1", "6", "1">>
  /\ apiKey = Some(<<"k">>)
  /\ source = [id \in Ids |-> Some([type |-> TypeStable, version |-> Some(1)])]
  /\ pc = "Validating"
  /\ lastId = ZeroId
  /\ prevLastId = EmptyId
  /\ allTags = <<>>
  /\ seenPoolIds = {}
  /\ result = Pending
  /\ fetchCalls = 0
  /\ batch = NoBatch
  /\ encountered = <<>>

FormatInit ==
  /\ \/ call \in {[fn |-> "transformPoolsToTags", arg |-> pools] : pools \in PoolLists}
     \/ call \in {[fn |-> "abbreviateNumberString", arg |-> input] : input \in NumberTexts}
  /\ ret = None
  /\ NoRun
  /\ NoFetch
  /\ NoOverlap

CallTransformPoolsToTags ==
  /\ call.fn = "transformPoolsToTags"
  /\ ret = None
  /\ ret' = Some(transformPoolsToTags(effectiveChainId, call.arg))
  /\ UNCHANGED <<call, runVars, fetchVars, overlapVars>>

CallAbbreviateNumberString ==
  /\ call.fn = "abbreviateNumberString"
  /\ ret = None
  /\ ret' = Some(abbreviateNumberString(call.arg))
  /\ UNCHANGED <<call, runVars, fetchVars, overlapVars>>

FormatNext ==
  \/ CallTransformPoolsToTags
  \/ CallAbbreviateNumberString

FormatSpec == FormatInit /\ [][FormatNext]_vars

(***************************************************************************)
(* Inside one fetchData call: the timer, the await of fetch, which         *)
(* resolves when the status line and the headers of the response are in,   *)
(* and the await of response.json(), which reads the body.                 *)
(***************************************************************************)
\* What the upstream may answer: nothing at all ("abort": only the timer
\* ends the wait), a connection failure, or a status with a body.  A body
\* that does not parse carries no members; ids come with data.pools only.
Replies ==
  { Response("abort", FALSE, FALSE, FALSE, "absent", <<>>),
    Response("error", FALSE, FALSE, FALSE, "absent", <<>>) }
  \cup {Response("ok", ok, FALSE, FALSE, "absent", <<>>) : ok \in BOOLEAN}
  \cup {Response("ok", ok, TRUE, errors, data, <<>>) :
          ok \in BOOLEAN, errors \in BOOLEAN, data \in {"absent", "nopools"}}
  \cup {Response("ok", ok, TRUE, errors, "pools", ids) :
          ok \in BOOLEAN, errors \in BOOLEAN, ids \in Pages}

\* The reply, and whether its body arrives in full or stops on the way.
Upstreams ==
  {[reply |-> r, body |-> "complete"] : r \in Replies}
  \cup {[reply |-> r, body |-> "stalled"] : r \in {x \in Replies : x.net = "ok"}}

TimedOut == Thrown(Error(<<"Request timed out while querying the subgraph.">>))

FetchInit ==
  /\ response \in Upstreams
  /\ phase = "requesting"
  /\ timer = "armed"
  /\ outcome = None
  /\ NoRun
  /\ NoFormatCall
  /\ NoOverlap

\* The outcome of the call, and the phase that goes with it
Settle(fetched) ==
  /\ outcome' = Some(fetched)
  /\ phase' = IF fetched.ok THEN "returned" ELSE "thrown"

\* setTimeout's callback: controller.abort(), fetch rejects with an
\* AbortError, the catch block throws the time-out error
TimerFires ==
  /\ phase = "requesting"
  /\ timer = "armed"
  /\ timer' = "cleared"
  /\ Settle(TimedOut)
  /\ UNCHANGED <<response, runVars, formatVars, overlapVars>>

\* fetch rejects for a reason of its own: the catch block rethrows
FetchRejects ==
  /\ phase = "requesting"
  /\ response.reply.net = "error"
  /\ timer' = "cleared"
  /\ Settle(fetchData(source, response.reply))
  /\ UNCHANGED <<response, runVars, formatVars, overlapVars>>

\* fetch resolves: the finally block clears the timer, then the status is
\* tested and response.json() is awaited
FetchResolves ==
  /\ phase = "requesting"
  /\ response.reply.net = "ok"
  /\ timer' = "cleared"
  /\ IF ~response.reply.ok
     THEN Settle(fetchData(source, response.reply))
     ELSE phase' = "reading" /\ UNCHANGED outcome
  /\ UNCHANGED <<response, runVars, formatVars, overlapVars>>

\* response.json() settles: the body has arrived; the rest of fetchData
BodyRead ==
  /\ phase = "reading"
  /\ response.body = "complete"
  /\ Settle(fetchData(source, response.reply))
  /\ UNCHANGED <<response, timer, runVars, formatVars, overlapVars>>

FetchNext ==
  \/ TimerFires
  \/ FetchRejects
  \/ FetchResolves
  \/ BodyRead

FetchSpec == FetchInit /\ [][FetchNext]_vars

\* The event loop runs every callback that is due: the timer's, and the
\* continuation of an await whose promise has settled.
FairFetchSpec == FetchSpec /\ WF_vars(FetchNext)

(***************************************************************************)
(* Overlapping calls of the exported returnTags.  Each call has its own    *)
(* locals; the module holds nothing a call writes.  The calls interleave   *)
(* at their awaits of fetchData.                                           *)
(***************************************************************************)
Runs == {1, 2}

\* The locals of a call as returnTags declares them
NewRun ==
  [pc |-> "Validating", lastId |-> ZeroId, prevLastId |-> EmptyId,
   allTags |-> <<>>, seenPoolIds |-> {}, result |-> Pending]

\* ghost: the ids a call has fetched, and the last id of its last full batch
NothingMet == [ids |-> <<>>, cursor |-> ZeroId]
Met(before, ids) ==
  [ids |-> AppendNew(before.ids, ids),
   cursor |-> IF Len(ids) = PageSize THEN ids[Len(ids)] ELSE before.cursor]

\* What the calls are answered with: any page of non-empty ids, or a
\* failure
OverlapResponses ==
  {Response("ok", TRUE, TRUE, FALSE, "pools", p) :
     p \in UNION {[1..n -> Ids \ {EmptyId}] : n \in 0..PageSize}}
  \cup {Response("ok", FALSE, TRUE, FALSE, "pools", <<ZeroId>>)}

OverlapInit ==
  /\ runs = [r \in Runs |-> NewRun]
  /\ met = [r \in Runs |-> NothingMet]
  /\ NoRun
  /\ NoFormatCall
  /\ NoFetch

\* A call up to its first await
Validated(run, invalid) ==
  IF invalid # NoError
  THEN [run EXCEPT !.pc = "Aborted", !.result = Rejected(invalid)]
  ELSE [run EXCEPT !.pc = "Fetching"]

OverlapValidate(r) ==
  /\ runs[r].pc = "Validating"
  /\ runs' = [runs EXCEPT ![r] = Validated(runs[r], ValidationError(chainId, apiKey))]
  /\ UNCHANGED <<met, runVars, formatVars, fetchVars>>

\* Variant: one set for all calls, as a member of the module would be.
SeenPoolIdsShared(r) == UNION {runs[q].seenPoolIds : q \in Runs}

\* The set the filter of call r reads and writes
SeenPoolIdsOf(r) == runs[r].seenPoolIds

\* The catch block of a call
RunThrew(run, error) ==
  [run EXCEPT !.pc = "Aborted", !.result = Rejected(Wrap(error))]

\* The try block of a call for the pools returned, the set the filter left
\* and the tags after the push
RunReturned(run, pools, seen, tags) ==
  IF ~IsMore(pools)
  THEN [run EXCEPT !.seenPoolIds = seen, !.allTags = tags,
                   !.pc = "Done", !.result = Fulfilled(tags)]
  ELSE IF Stalled(pools[Len(pools)].id, run.lastId, run.prevLastId)
  THEN [run EXCEPT !.seenPoolIds = seen, !.allTags = tags,
                   !.pc = "Aborted", !.result = Rejected(Wrap(StallError))]
  ELSE [run EXCEPT !.seenPoolIds = seen, !.allTags = tags,
                   !.prevLastId = run.lastId,
                   !.lastId = pools[Len(pools)].id]

RunSettled(r, fetched, filtered) ==
  IF ~fetched.ok THEN RunThrew(runs[r], fetched.error)
  ELSE RunReturned(runs[r], fetched.pools, filtered.seen,
                   runs[r].allTags
                   \o transformPoolsToTags(effectiveChainId, filtered.kept))

\* One pass of the loop of call r
OverlapIterate(r, resp) ==
  /\ runs[r].pc = "Fetching"
  /\ runs' = [runs EXCEPT ![r] =
                RunSettled(r, fetchData(source, resp),
                           FilterNew(fetchData(source, resp).pools, SeenPoolIdsOf(r)))]
  /\ met' = [met EXCEPT ![r] =
               IF fetchData(source, resp).ok THEN Met(met[r], resp.ids) ELSE met[r]]
  /\ UNCHANGED <<runVars, formatVars, fetchVars>>

OverlapNext ==
  \E r \in Runs :
    \/ OverlapValidate(r)
    \/ \E resp \in OverlapResponses : OverlapIterate(r, resp)

OverlapSpec == OverlapInit /\ [][OverlapNext]_vars

(***************************************************************************)
(* Properties.                                                             *)
(***************************************************************************)
Terminated == pc \in {"Done", "Aborted"}
StallRejection == Rejected(Wrap(StallError))
\* the last fetchData call returned a full page
FullBatch == batch.called /\ batch.ok /\ batch.size = PageSize
\* the ids met so far whose pool passes the validity check
ValidEncountered ==
  SelectSeq(encountered, LAMBDA id : ~poolTypeInvalid(PoolOf(source, id)))

\* C1: a run is all-or-nothing.  A failed fetchData call, and a full batch
\* that trips the cursor guard, end the run Aborted with a rejection that
\* carries no tag, whatever allTags held; tags are handed to the caller only
\* in Done, and nothing is handed over before the run ends.
C1_AllOrNothing ==
  /\ (batch.called /\ ~batch.ok) => pc = "Aborted"
  /\ (FullBatch /\ batch.last \in {EmptyId, batch.cursor}) => pc = "Aborted"
  /\ pc = "Aborted" => (result.status = "rejected" /\ result.tags = <<>>)
  /\ result.status = "fulfilled" => pc = "Done"
  /\ ~Terminated => result = Pending

C1_Witness ==
  /\ pc = "Aborted"
  /\ batch.called /\ ~batch.ok
  /\ Len(allTags) >= 2
  /\ result.status = "rejected"

\* C2: when the run ends Done (full pages, then a shorter one), the list
\* returned holds exactly one tag for every valid record among the pages,
\* each id once, in the order the ids were first met.
C2_UnionInOrder ==
  pc = "Done" =>
    /\ result.status = "fulfilled"
    /\ Len(result.tags) = Len(ValidEncountered)
    /\ \A i \in 1..Len(result.tags) :
         result.tags[i] = Tag(effectiveChainId, PoolOf(source, ValidEncountered[i]))

C2_Witness ==
  /\ pc = "Done"
  /\ fetchCalls >= 2
  /\ batch.size > 0
  /\ Len(result.tags) >= 2
  /\ Len(encountered) > Len(result.tags)

\* C3: validation precedes all network activity.  A chain id that does not
\* denote 42161, and a key that is absent or all white space, take the run
\* from Validating straight to Aborted with the validation error, unwrapped,
\* and no fetchData call is ever issued.  (The chain id is compared as a
\* number: the text "42161.0" denotes 42161.)
DenotesSupportedChain(chain) ==
  chain \in {<<"4", "2", "1", "6", "1">>, <<"4", "2", "1", "6", "1", ".", "0">>}
Blank(key) ==
  ~IsSome(key) \/ \A i \in 1..Len(Get(key)) : Get(key)[i] \in Whitespace
ValidationRejections ==
  { Rejected(<<"Unsupported Chain ID: ", "${chainId}", ".">>),
    Rejected(<<"Missing API key. A The Graph gateway API key is required.">>) }

C3_ValidationFirst ==
  (~DenotesSupportedChain(chainId) \/ Blank(apiKey)) =>
    /\ pc \in {"Validating", "Aborted"}
    /\ fetchCalls = 0
    /\ ~batch.called
    /\ pc = "Aborted" => result \in ValidationRejections

C3_Witness ==
  /\ pc = "Aborted"
  /\ DenotesSupportedChain(chainId)
  /\ apiKey = Some(<<"\t", " ">>)
  /\ fetchCalls = 0

\* C4 as stated: whenever a returned batch ends with the id that was its
\* cursor, the run fails with the pagination-stall error.
C4_AnyBatchStalls ==
  (batch.called /\ batch.ok /\ batch.size > 0 /\ batch.last = batch.cursor) =>
    (pc = "Aborted" /\ result = StallRejection)

\* C4, amended: whenever a full batch (one of exactly the page size) ends
\* with the id that was its cursor, the run fails with the pagination-stall
\* error and returns no result.
C4_FullBatchStalls ==
  (FullBatch /\ batch.last = batch.cursor) =>
    (pc = "Aborted" /\ result = StallRejection)

C4_Witness ==
  /\ FullBatch
  /\ batch.last = batch.cursor
  /\ batch.cursor # ZeroId
  /\ pc = "Aborted"
  /\ allTags # <<>>
\* C5: whatever batches fetchData returns, the cursor guard makes every run
\* end: it reaches Done or Aborted after finitely many fetches.
C5_RunTerminates == <>Terminated

\* C6: the first fetchData call is given the zero id, and every later call
\* a cursor strictly greater than the call before it was given.
C6_CursorAdvances ==
  pc = "Fetching" =>
    IF batch.called THEN IdLess(batch.cursor, lastId) ELSE lastId = ZeroId

\* C7: after a full batch the run either goes on, with the last id of the
\* batch as fetched (duplicates included) for its cursor and the old cursor
\* kept as the previous one, or it aborts with the pagination-stall error;
\* it aborts exactly when that id is empty, is the cursor of the call, or is
\* the cursor of the call before it.
StallsOn(id) == id \in {EmptyId, lastId, prevLastId}

C7_CursorGuard ==
  [][ /\ (pc = "Fetching" /\ batch'.ok /\ batch'.size = PageSize) =>
           IF StallsOn(batch'.last)
           THEN pc' = "Aborted" /\ result' = StallRejection
           ELSE /\ pc' = "Fetching"
                /\ lastId' = batch'.last
                /\ prevLastId' = lastId
      /\ (pc = "Fetching" /\ result' = StallRejection) =>
           (batch'.ok /\ batch'.size = PageSize /\ StallsOn(batch'.last))
    ]_vars

C7_Witness ==
  /\ pc = "Aborted"
  /\ result = StallRejection
  /\ FullBatch
  /\ batch.last = prevLastId
  /\ batch.last \notin {EmptyId, lastId}

\* C8: the run is Done exactly when the last fetchData call returned fewer
\* records than the page size, none included; that batch has gone through
\* the duplicate filter and the transformation, the tags are returned, no
\* step follows Done, and after a full batch the run is never Done.
C8_DoneOnShortBatch ==
  /\ [](/\ pc = "Done" <=> (batch.called /\ batch.ok /\ batch.size < PageSize)
        /\ pc = "Done" =>
             /\ result = Fulfilled(allTags)
             /\ seenPoolIds = {encountered[i] : i \in 1..Len(encountered)}
             /\ batch.size > 0 => batch.last \in seenPoolIds
             /\ Len(allTags) = Len(ValidEncountered))
  /\ [][pc # "Done"]_vars

C8_Witness ==
  /\ pc = "Done"
  /\ batch.size = 0
  /\ fetchCalls >= 2
  /\ allTags # <<>>

\* C9: no id yields two tags.  The address of a tag is the id of its pool,
\* and at no point do two of the accumulated tags, or two of the returned
\* ones, carry the same address; a repeated record is dropped, in the batch
\* that repeats it as well as in a later one.
NoTwoTagsOfOneId(tags) ==
  \A i, j \in 1..Len(tags) :
    i # j => tags[i].contractAddress # tags[j].contractAddress

C9_OneTagPerId ==
  /\ NoTwoTagsOfOneId(allTags)
  /\ NoTwoTagsOfOneId(result.tags)
  /\ Len(allTags) <= Cardinality(seenPoolIds)

\* three records or more fetched, all of one id: one tag
C9_Witness ==
  /\ pc = "Done"
  /\ fetchCalls >= 2
  /\ batch.size > 0
  /\ Len(encountered) = 1
  /\ Len(result.tags) = 1

\* C10: the validity check is the only skip.  Of the records met for the
\* first time, those left out of the tags are exactly the ones whose factory
\* type is missing, empty, or holds a "<", one character or more other than
\* ">", and a ">"; the others all have their tag, in order.  A skip raises
\* no error: a run is rejected only by the validation, by a failed fetchData
\* call or by the cursor guard after a full batch.
HasMarkup(text) ==
  \E i \in 1..Len(text) : \E n \in 1..Len(text) :
    /\ i + n + 1 <= Len(text)
    /\ text[i] = "<"
    /\ text[i + n + 1] = ">"
    /\ \A k \in 1..n : text[i + k] # ">"

InvalidKind(factory) ==
  \/ ~IsSome(factory)
  \/ Get(factory).type = <<>>
  \/ HasMarkup(Get(factory).type)

KeptIds == SelectSeq(encountered, LAMBDA id : ~InvalidKind(source[id]))

C10_SoleSkipPolicy ==
  /\ Len(allTags) = Len(KeptIds)
  /\ \A i \in 1..Len(allTags) :
       allTags[i].contractAddress = <<"eip155", effectiveChainId, KeptIds[i]>>
  /\ result.status = "rejected" =>
       \/ ~batch.called
       \/ ~batch.ok
       \/ FullBatch /\ StallsOn(batch.last)

\* the first batch: an invalid record and a valid one
C10_Witness ==
  /\ pc = "Fetching"
  /\ batch.cursor = ZeroId
  /\ Len(encountered) = 2
  /\ Len(allTags) = 1

(***************************************************************************)
(* Properties of the formatting functions (FormatSpec).                    *)
(***************************************************************************)
Transformed == call.fn = "transformPoolsToTags" /\ IsSome(ret)
Abbreviated == call.fn = "abbreviateNumberString" /\ IsSome(ret)
\* the pools of the call that pass the validity check, as C10 states it
ValidOfCall == SelectSeq(call.arg, LAMBDA pool : ~InvalidKind(pool.factory))

\* C11: in every tag, neither the display name nor the note holds markup
\* (a "<", one character or more other than ">", and a ">"), whatever texts
\* the type, the version and the parameter members of the pool are.
C11_NoMarkupInTags ==
  Transformed =>
    \A i \in 1..Len(Get(ret)) :
      /\ ~HasMarkup(Get(ret)[i].publicNameTag)
      /\ ~HasMarkup(Get(ret)[i].publicNote)

\* C12: the display name is at most 50 characters.  The base name is the
\* spaced type, " Pool" and, for a version, " v" and the version; a base
\* name of 50 characters or fewer is the display name, a longer one gives
\* its first 47 characters and "...", 50 characters in all.
BaseName(pool) ==
  camelCaseToSpaced(Get(pool.factory).type) \o <<" ", "P", "o", "o", "l">>
  \o (IF IsSome(Get(pool.factory).version)
      THEN <<" ", "v">> \o NatToString(Get(Get(pool.factory).version))
      ELSE <<>>)

CappedName(base) ==
  IF Len(base) <= 50 THEN base ELSE SubSeq(base, 1, 47) \o <<".", ".", ".">>

C12_NameCapped ==
  Transformed =>
    /\ Len(Get(ret)) = Len(ValidOfCall)
    /\ \A i \in 1..Len(Get(ret)) :
         /\ Len(Get(ret)[i].publicNameTag) <= 50
         /\ Get(ret)[i].publicNameTag = CappedName(BaseName(ValidOfCall[i]))

\* a base name of 60 characters: 50 characters ending in "..."
C12_Witness ==
  /\ Transformed
  /\ Len(Get(ret)) = 1
  /\ Len(BaseName(ValidOfCall[1])) = 60
  /\ Len(Get(ret)[1].publicNameTag) = 50
  /\ SubSeq(Get(ret)[1].publicNameTag, 48, 50) = <<".", ".", ".">>

\* C17: the note is "A Balancer v3 '<spaced type>' pool.", followed by
\* " Params: <snippet>." exactly when the snippet is not empty.  The snippet
\* is empty, and the note is the first sentence alone, for an LBP pool
\* whatever groups are populated, for a type the switch does not know, and
\* for a known type with a required member missing.
KnownTypes ==
  {TypeStable, TypeWeighted, TypeGyro2, TypeGyroE, TypeQuantAMMWeighted,
   TypeLBP, TypeReClamm}

Required(pool) ==
  LET type == Get(pool.factory).type
  IN IF type = TypeStable THEN <<Opt(pool.stableParams, "amp")>>
     ELSE IF type = TypeWeighted THEN <<Opt(pool.weightedParams, "weights")>>
     ELSE IF type = TypeGyro2
     THEN <<Opt(pool.gyro2Params, "sqrtAlpha"), Opt(pool.gyro2Params, "sqrtBeta")>>
     ELSE IF type = TypeGyroE
     THEN <<Opt(pool.gyroEParams, "alpha"), Opt(pool.gyroEParams, "beta")>>
     ELSE IF type = TypeQuantAMMWeighted
     THEN <<Opt(pool.quantAMMWeightedParams, "epsilonMax"),
            Opt(pool.quantAMMWeightedParams, "maxTradeSizeRatio")>>
     ELSE IF type = TypeReClamm THEN <<Opt(pool.reClammParams, "lastTimestamp")>>
     ELSE <<>>

SnippetLess(pool) ==
  \/ Get(pool.factory).type = TypeLBP
  \/ Get(pool.factory).type \notin KnownTypes
  \/ \E i \in 1..Len(Required(pool)) : ~IsSome(Required(pool)[i])

FirstSentence(pool) ==
  <<"A", " ", "B", "a", "l", "a", "n", "c", "e", "r", " ", "v", "3", " ", "'">> \o camelCaseToSpaced(Get(pool.factory).type) \o <<"'", " ", "p", "o", "o", "l", ".">>

C17_ParamsIffSnippet ==
  Transformed =>
    /\ Len(Get(ret)) = Len(ValidOfCall)
    /\ \A i \in 1..Len(Get(ret)) :
         /\ Get(ret)[i].publicNote =
              FirstSentence(ValidOfCall[i])
              \o (IF buildParamsSnippet(ValidOfCall[i]) # <<>>
                  THEN <<" ", "P", "a", "r", "a", "m", "s", ":", " ">> \o buildParamsSnippet(ValidOfCall[i]) \o <<".">>
                  ELSE <<>>)
         /\ SnippetLess(ValidOfCall[i]) =>
              /\ buildParamsSnippet(ValidOfCall[i]) = <<>>
              /\ Get(ret)[i].publicNote = FirstSentence(ValidOfCall[i])

\* an LBP pool with its own and a foreign group populated
C17_Witness ==
  /\ Transformed
  /\ Len(Get(ret)) = 1
  /\ Get(call.arg[1].factory).type = TypeLBP
  /\ IsSome(call.arg[1].lbpParams)
  /\ IsSome(call.arg[1].stableParams)
  /\ Get(ret)[1].publicNote = <<"A", " ", "B", "a", "l", "a", "n", "c", "e", "r", " ", "v", "3", " ", "'", "L", "B", "P", "'", " ", "p", "o", "o", "l", ".">>

\* C18: an input that denotes an integer n is rendered by its magnitude:
\* from 1,000,000 as n / 1,000,000 rounded, then "M"; from 1,000 as
\* n / 1,000 rounded, then "k"; from 1 to 999 as the integer, without a
\* fraction.  Halves round up ("2500" gives "3k").  An input that is not a
\* finite number comes back unchanged.
IntegerTexts ==
  {t \in NumberTexts :
     \/ t # <<>> /\ IsDigits(t)
     \/ Len(t) > 1 /\ Head(t) = "-" /\ IsDigits(Tail(t))}

Denoted(t) == IF Head(t) = "-" THEN 0 - DigitsToNat(Tail(t)) ELSE DigitsToNat(t)
Abs(n) == IF n < 0 THEN 0 - n ELSE n
IntegerText(n) == IF n < 0 THEN <<"-">> \o NatToString(0 - n) ELSE NatToString(n)
\* n / d rounded to the nearest integer, a half going up
Rounded(n, d) == (2 * n + d) \div (2 * d)

Rendering(n) ==
  IF Abs(n) >= 1000000 THEN IntegerText(Rounded(n, 1000000)) \o <<"M">>
  ELSE IF Abs(n) >= 1000 THEN IntegerText(Rounded(n, 1000)) \o <<"k">>
  ELSE IntegerText(n)

NotNumbers == {<<"a", "b", "c">>, <<"<", "b", ">">>, <<"1", ".", "2", ".", "3">>, <<"-">>, <<"I", "n", "f", "i", "n", "i", "t", "y">>}

C18_ByMagnitude ==
  Abbreviated =>
    /\ (call.arg \in IntegerTexts /\ Abs(Denoted(call.arg)) >= 1) =>
         Get(ret) = Rendering(Denoted(call.arg))
    /\ call.arg \in NotNumbers => Get(ret) = call.arg
    /\ call.arg = <<"2", "5", "0", "0">> => Get(ret) = <<"3", "k">>
    /\ call.arg = <<"1", "0", "0">> => Get(ret) = <<"1", "0", "0">>

C18_Witness ==
  /\ Abbreviated
  /\ call.arg = <<"2", "5", "0", "0">>
  /\ Get(ret) = <<"3", "k">>

(***************************************************************************)
(* Properties of the run (Spec), continued.                                *)
(***************************************************************************)
Context == <<"Failed fetching data: ", "Error: ">>
Wrapped(error) == Len(error) > 2 /\ SubSeq(error, 1, 2) = Context

\* C13 as stated: every error the caller receives, the validation errors
\* included, is a new error that adds context to the original one.
C13_AllWrapped ==
  result.status = "rejected" => Wrapped(result.error)

\* C13, amended: what fetchData throws and the pagination stall reach the
\* caller as a new error, "Failed fetching data: " and the original error
\* with its message; a validation error reaches the caller as it is, with
\* no context added.  No error is swallowed: a failed call ends the run
\* Aborted, and an Aborted run is rejected.
C13_FetchErrorsWrapped ==
  /\ (batch.called /\ ~batch.ok) =>
       /\ pc = "Aborted"
       /\ batch.error # NoError
       /\ result = Rejected(Context \o batch.error)
  /\ (pc = "Aborted" /\ batch.called /\ batch.ok) =>
       result = Rejected(Context \o StallError)
  /\ (pc = "Aborted" /\ ~batch.called) =>
       (result \in ValidationRejections /\ ~Wrapped(result.error))
  /\ pc = "Aborted" <=> result.status = "rejected"

C13_Witness ==
  /\ pc = "Aborted"
  /\ batch.called /\ ~batch.ok
  /\ batch.error = <<"HTTP error: ", "${response.status}">>
  /\ result.error = Context \o <<"HTTP error: ", "${response.status}">>

\* C14: no retry.  A fetchData call that fails ends the run: the run is
\* Aborted, no call is issued for it, and nothing follows Aborted.  Two
\* calls in a row never ask for the same page.
C14_NoRetry ==
  /\ []((batch.called /\ ~batch.ok) => pc = "Aborted")
  /\ [][(pc = "Fetching" /\ ~batch'.ok) => fetchCalls' = fetchCalls]_vars
  /\ [][pc # "Aborted"]_vars
  /\ [][(pc = "Fetching" /\ pc' = "Fetching") => lastId' # lastId]_vars

\* the first call of the run fails: it is the only one
C14_Witness ==
  /\ pc = "Aborted"
  /\ batch.called /\ ~batch.ok
  /\ batch.error = <<"Request timed out while querying the subgraph.">>
  /\ fetchCalls = 1

\* C20: seenPoolIds and allTags only grow; seenPoolIds holds exactly the
\* ids of the records fetched so far, valid or not; there are never more
\* tags than ids in seenPoolIds.
IsPrefix(s, t) == Len(s) <= Len(t) /\ SubSeq(t, 1, Len(s)) = s

C20_SeenSetAndTagsGrow ==
  /\ [](/\ seenPoolIds = {encountered[i] : i \in 1..Len(encountered)}
        /\ Len(allTags) <= Cardinality(seenPoolIds))
  /\ [][seenPoolIds \subseteq seenPoolIds' /\ IsPrefix(allTags, allTags')]_vars

\* after two calls: three ids fetched, one of them of an invalid record
C20_Witness ==
  /\ fetchCalls >= 2
  /\ Cardinality(seenPoolIds) = 3
  /\ Len(allTags) = 2
  /\ \E i \in 1..Len(encountered) : poolTypeInvalid(PoolOf(source, encountered[i]))

(***************************************************************************)
(* Properties of one fetchData call (FetchSpec, FairFetchSpec).            *)
(***************************************************************************)
FetchSettled == phase \in {"returned", "thrown"}

\* What the claimed order of tests gives for a reply
Classified(r) ==
  IF r.net # "ok" \/ ~r.ok THEN "transport failure"
  ELSE IF ~r.json THEN "malformed"
  ELSE IF r.errors THEN "error list"
  ELSE IF r.data # "pools" THEN "no record list"
  ELSE "batch"

Failures ==
  [thrown |-> {<<"Request timed out while querying the subgraph.">>,
               <<"${fetch error}">>, <<"HTTP error: ", "${response.status}">>},
   malformed |-> {<<"${json error}">>},
   errorlist |-> {<<"GraphQL errors occurred: see logs for details.">>},
   norecords |-> {<<"No pools data found.">>}]

\* C15: fetchData classifies in a fixed order.  A call that did not time
\* out ends as follows: a connection failure or a status that is not a
\* success is a transport failure; otherwise (the body parsing) an error
\* list is a failure, a record list beside it or not; otherwise an absent
\* data member or an absent record list is a failure; otherwise the record
\* list, empty or not, is returned, in its order.
C15_ClassifiedInOrder ==
  (FetchSettled /\ Get(outcome) # TimedOut) =>
    /\ Classified(response.reply) = "transport failure" =>
         (phase = "thrown" /\ Get(outcome).error \in Failures.thrown)
    /\ Classified(response.reply) = "malformed" =>
         (phase = "thrown" /\ Get(outcome).error \in Failures.malformed)
    /\ Classified(response.reply) = "error list" =>
         (phase = "thrown" /\ Get(outcome).error \in Failures.errorlist)
    /\ Classified(response.reply) = "no record list" =>
         (phase = "thrown" /\ Get(outcome).error \in Failures.norecords)
    /\ Classified(response.reply) = "batch" =>
         /\ phase = "returned"
         /\ Len(Get(outcome).pools) = Len(response.reply.ids)
         /\ \A i \in 1..Len(response.reply.ids) :
              Get(outcome).pools[i].id = response.reply.ids[i]

\* an error list beside a record list: a failure
C15_Witness ==
  /\ phase = "thrown"
  /\ response.reply.ok /\ response.reply.json
  /\ response.reply.errors
  /\ response.reply.data = "pools"
  /\ Len(response.reply.ids) = 2
  /\ Get(outcome).error = <<"GraphQL errors occurred: see logs for details.">>

\* C16: a fetchData call never blocks for ever: it returns a batch or
\* throws, the timer ending the wait on an upstream that does not answer.
C16_FetchSettles == <>FetchSettled

(***************************************************************************)
(* Properties of overlapping calls (OverlapSpec).                          *)
(***************************************************************************)
\* the ids call r has met whose pool passes the validity check
ValidMet(r) ==
  SelectSeq(met[r].ids, LAMBDA id : ~InvalidKind(source[id]))

\* C19: calls that overlap share no state.  Whatever the other call has
\* done, the set, the tags and the cursor of a call are those of its own
\* batches: the set holds the ids it fetched itself, there is one tag for
\* each valid one of them, in order, whether or not the other call has met
\* the id, the cursor is the last id of its own last full batch, and a call
\* that is Done returns its own tags.
C19_RunsIndependent ==
  \A r \in Runs :
    /\ runs[r].seenPoolIds = {met[r].ids[i] : i \in 1..Len(met[r].ids)}
    /\ Len(runs[r].allTags) = Len(ValidMet(r))
    /\ \A i \in 1..Len(runs[r].allTags) :
         runs[r].allTags[i] = Tag(effectiveChainId, PoolOf(source, ValidMet(r)[i]))
    /\ runs[r].pc = "Fetching" => runs[r].lastId = met[r].cursor
    /\ runs[r].pc = "Done" => runs[r].result = Fulfilled(runs[r].allTags)
    /\ runs[r].pc # "Done" => runs[r].result.tags = <<>>

\* both calls in the middle of their loops, each past a full batch of its
\* own, both having met the same id and each holding its tag
C19_Witness ==
  /\ runs[1].pc = "Fetching" /\ runs[2].pc = "Fetching"
  /\ runs[1].lastId # ZeroId /\ runs[2].lastId # ZeroId
  /\ runs[1].lastId # runs[2].lastId
  /\ runs[1].seenPoolIds \cap runs[2].seenPoolIds # {}
  /\ Len(runs[1].allTags) = Cardinality(runs[1].seenPoolIds)
  /\ Len(runs[2].allTags) = Cardinality(runs[2].seenPoolIds)

====
